---- MODULE Spec2Model ----
(***************************************************************************)
(* karmen.py: lookups in the LanguaL thesaurus.  The thesaurus is a flat   *)
(* list of DESCRIPTOR elements (FTC code, TERM name, BT parent code); the  *)
(* hierarchy is navigated through the codes.  Strings are sequences of     *)
(* one-character strings; an XML element is its position in the document.  *)
(***************************************************************************)
EXTENDS Integers, Sequences, FiniteSets, TLC

VARIABLES store,          \* the parsed document: sequence of DESCRIPTOR records
          op,             \* the top-level call being run and its arguments
          pc,             \* position of the running code
          ret,            \* who called the function being run
          branch,         \* find_allparents: the list being built
          thisnode,       \* find_allparents / find_descendants: loop variable
          lists,          \* heap of Python list objects, by reference
          xs,             \* the caller's reference to the list it passes in
          queue,          \* find_descendants: the deque
          desc,           \* find_descendants: reference held by desc
          results,        \* what each find_descendants call returned, at return
          ischildResult,  \* <<>> or <<b>>: the value ischild returned
          searchterm,     \* search: its arguments
          withtree,
          elmt,           \* search: the resolved elements
          idx,            \* search: position of the for loop
          out,            \* everything printed, in order
          called          \* the lookups search has called, in order

vars == <<store, op, pc, ret, branch, thisnode, lists, xs, queue, desc,
          results, ischildResult, searchterm, withtree, elmt, idx, out, called>>

----------------------------------------------------------------------------
(* Bounds of the exploration *)

MaxRecords == 4

MaxRoots == 2

MaxBranch == MaxRecords + 2

----------------------------------------------------------------------------
(* Characters and strings *)

UpperLetters == <<"A","B","C","D","E","F","G","H","I","J","K","L","M",
                  "N","O","P","Q","R","S","T","U","V","W","X","Y","Z">>

LowerLetters == <<"a","b","c","d","e","f","g","h","i","j","k","l","m",
                  "n","o","p","q","r","s","t","u","v","w","x","y","z">>

DigitChars == <<"0","1","2","3","4","5","6","7","8","9">>

Range(s) == {s[i] : i \in 1..Len(s)}

UpperSet == Range(UpperLetters)

LowerSet == Range(LowerLetters)

DigitSet == Range(DigitChars)

WordSet == UpperSet \cup LowerSet \cup DigitSet \cup {"_"}

IsUpperLetter(c) == c \in UpperSet

IsDigit(c) == c \in DigitSet

IsWordChar(c) == c \in WordSet

UpperOf == [c \in LowerSet |-> UpperLetters[CHOOSE i \in 1..26 : LowerLetters[i] = c]]

UpperChar(c) == IF c \in LowerSet THEN UpperOf[c] ELSE c

Upper(s) == [i \in 1..Len(s) |-> UpperChar(s[i])]

Contains(sub, s) ==
    \E k \in 0..(Len(s) - Len(sub)) : \A i \in 1..Len(sub) : s[k + i] = sub[i]

Spaces(n) == [i \in 1..n |-> " "]

Reverse(s) == [i \in 1..Len(s) |-> s[Len(s) + 1 - i]]

RECURSIVE Flatten(_)
Flatten(ss) == IF ss = <<>> THEN <<>> ELSE Head(ss) \o Flatten(Tail(ss))

\* the elements of a set of document positions, in document order
RECURSIVE InSourceOrder(_)
InSourceOrder(S) ==
    IF S = {} THEN <<>>
    ELSE LET m == CHOOSE x \in S : \A y \in S : x <= y
         IN <<m>> \o InSourceOrder(S \ {m})

----------------------------------------------------------------------------
(* The document *)

RootName == <<"L","A","N","G","U","A","L"," ","T","H","E","S","A","U","R","U","S"," ","R","O","O","T">>

None == <<"None">>

Code(i) == <<"B","0","0","0",DigitChars[i + 1]>>

DanglingCode == <<"Z","9","9","9","9">>

OtherName == <<"X">>

get_ftc(e) == store[e].ftc

get_name(e) == store[e].name

\* variant: the TERM child read where the BT child is meant
get_parentcode_wrongchild(e) == store[e].name

get_parentcode(e) == store[e].bt

\* variant: narrowed to the first match
find_byname_firstonly(searchstring) ==
    LET all == InSourceOrder({e \in 1..Len(store) : store[e].name = Upper(searchstring)})
    IN IF all = <<>> THEN <<>> ELSE <<all[1]>>

find_byname(searchstring) ==
    InSourceOrder({e \in 1..Len(store) : store[e].name = Upper(searchstring)})

\* variant: the search string is not upper-cased
contains_name_casesensitive(searchstring) ==
    InSourceOrder({e \in 1..Len(store) : Contains(searchstring, store[e].name)})

contains_name(searchstring) ==
    InSourceOrder({e \in 1..Len(store) : Contains(Upper(searchstring), store[e].name)})

\* every caller passes a str, which line 101 wraps in a list of one
find_byftc(searchftc) ==
    LET tolookup == {Upper(searchftc)}
    IN InSourceOrder({e \in 1..Len(store) : store[e].ftc \in tolookup})

\* find_byftc(None) raises TypeError, [][0] raises IndexError
find_parent_raises(e) ==
    \/ get_parentcode(e) = None
    \/ find_byftc(get_parentcode(e)) = <<>>

find_parent(e) == find_byftc(get_parentcode(e))[1]

\* variant: FTC and BT swapped, so the parent is found where children are meant
find_children_swapped(xmlelements) ==
    Flatten([k \in 1..Len(xmlelements) |->
               InSourceOrder({c \in 1..Len(store) : store[c].ftc = get_parentcode(xmlelements[k])})])

find_children(xmlelements) ==
    Flatten([k \in 1..Len(xmlelements) |->
               InSourceOrder({c \in 1..Len(store) : store[c].bt = get_ftc(xmlelements[k])})])

----------------------------------------------------------------------------
(* Documents explored by the tree operations: record 1 is the root; every  *)
(* other record points at any record of the document (itself included) or  *)
(* at a code the document does not hold.                                   *)

StructStore(n, f) ==
    [i \in 1..n |->
        [ftc  |-> Code(i),
         name |-> IF i = 1 THEN RootName ELSE OtherName,
         bt   |-> IF i = 1 THEN None
                  ELSE IF f[i] = 0 THEN DanglingCode ELSE Code(f[i])]]

StructStores ==
    UNION {{StructStore(n, f) : f \in [2..n -> 0..n]} : n \in 1..MaxRecords}

(* The tree invariant of a document, stated on the data: unique codes, one  *)
(* record named as the root and only it without a parent code, every other *)
(* parent code held by exactly one record, the root met from every record.  *)

Holders(s, code) == {i \in 1..Len(s) : s[i].ftc = code}

ParentIdx(s, i) == CHOOSE j \in 1..Len(s) : s[j].ftc = s[i].bt

RECURSIVE ReachesRoot(_, _, _)
ReachesRoot(s, i, fuel) ==
    IF s[i].name = RootName THEN TRUE
    ELSE IF fuel = 0 \/ Holders(s, s[i].bt) = {} THEN FALSE
    ELSE ReachesRoot(s, ParentIdx(s, i), fuel - 1)

TreeValid(s) ==
    /\ \A i, j \in 1..Len(s) : s[i].ftc = s[j].ftc => i = j
    /\ Cardinality({i \in 1..Len(s) : s[i].name = RootName}) = 1
    /\ \A i \in 1..Len(s) : s[i].name = RootName <=> s[i].bt = None
    /\ \A i \in 1..Len(s) : s[i].name # RootName => Cardinality(Holders(s, s[i].bt)) = 1
    /\ \A i \in 1..Len(s) : ReachesRoot(s, i, Len(s))

----------------------------------------------------------------------------
(* Printing *)

Separator == <<"\n","-","-","-","-","-","-","-","-","\n">>

elementlist_tostr(elementlist) ==
    [k \in 1..Len(elementlist) |->
        get_ftc(elementlist[k]) \o Spaces(8) \o get_name(elementlist[k])]

\* the lines print_astree prints, enumerate counting from 0
print_astree(stringlist) ==
    [k \in 1..Len(stringlist) |-> Spaces(6 * (k - 1)) \o <<"+","-">> \o stringlist[k]]

msg_cant_find(t) == <<"c","a","n","'","t"," ","f","i","n","d",":"," ">> \o t \o <<"\n">>

msg_no_exact(t) == <<"c","a","n","'","t"," ","f","i","n","d"," ","a","n"," ","e","x","a","c","t"," ","m","a","t","c","h"," ","f","o","r",":"," ">> \o t \o <<"\n">>

\* variant: the search term left out of the message
msg_nothing_containing_noterm(t) == <<"c","a","n","'","t"," ","f","i","n","d"," ","a","n","y","t","h","i","n","g"," ","c","o","n","t","a","i","n","i","n","g",":"," ">> \o <<"\n">>

msg_nothing_containing(t) == <<"c","a","n","'","t"," ","f","i","n","d"," ","a","n","y","t","h","i","n","g"," ","c","o","n","t","a","i","n","i","n","g",":"," ">> \o t \o <<"\n">>

\* variant: codes.search in place of codes.match, the pattern found anywhere
codes_search(t) ==
    \E k \in 0..(Len(t) - 5) :
        /\ IsUpperLetter(t[k + 1])
        /\ \A i \in 2..5 : IsDigit(t[k + i])
        /\ Len(t) = k + 5 \/ ~IsWordChar(t[k + 6])

\* codes = re.compile(r'[A-Z]\d{4}\b'); codes.match(searchterm)
codes_match(t) ==
    /\ Len(t) >= 5
    /\ IsUpperLetter(t[1])
    /\ \A i \in 2..5 : IsDigit(t[i])
    /\ Len(t) = 5 \/ ~IsWordChar(t[6])

----------------------------------------------------------------------------
(* find_allparents *)

NoOp == [name |-> "none", args |-> <<>>]

CallFindAllParents ==
    /\ pc = "idle"
    /\ \E e \in 1..Len(store) :
         /\ op' = [name |-> "find_allparents", args |-> <<e>>]
         /\ branch' = <<e>>
         /\ thisnode' = e
    /\ pc' = "allparents"
    /\ ret' = "top"
    /\ UNCHANGED <<store, lists, xs, queue, desc, results, ischildResult,
                   searchterm, withtree, elmt, idx, out, called>>

\* one turn of the while True loop; the walk is cut off at MaxBranch elements.
\* Returning into search (line 224) prints the tree and goes on with the for loop.
AllParentsLoop ==
    /\ pc = "allparents"
    /\ Len(branch) < MaxBranch
    /\ IF get_name(thisnode) = RootName
       THEN /\ IF ret = "search"
               THEN /\ out' = out \o print_astree(elementlist_tostr(Reverse(branch)))
                                  \o <<Separator>>
                    /\ idx' = idx + 1
                    /\ pc' = "render"
               ELSE /\ pc' = "done"
                    /\ UNCHANGED <<out, idx>>
            /\ UNCHANGED <<branch, thisnode>>
       ELSE IF find_parent_raises(thisnode)
       THEN /\ pc' = "error"
            /\ UNCHANGED <<branch, thisnode, out, idx>>
       ELSE /\ branch' = Append(branch, find_parent(thisnode))
            /\ thisnode' = find_parent(thisnode)
            /\ pc' = "allparents"
            /\ UNCHANGED <<out, idx>>
    /\ UNCHANGED <<store, op, ret, lists, xs, queue, desc, results,
                   ischildResult, searchterm, withtree, elmt, called>>

----------------------------------------------------------------------------
(* find_descendants, ischild *)

RootSeqs(n) == UNION {[1..k -> 1..n] : k \in 0..MaxRoots}

CallFindDescendants ==
    /\ pc = "idle"
    /\ TreeValid(store)
    /\ \E S \in RootSeqs(Len(store)) :
         /\ op' = [name |-> "find_descendants", args |-> S]
         /\ lists' = Append(lists, S)
         /\ xs' = Len(lists) + 1
         /\ queue' = S
         /\ desc' = Len(lists) + 1
    /\ pc' = "descendants"
    /\ ret' = "top"
    /\ UNCHANGED <<store, branch, thisnode, results, ischildResult,
                   searchterm, withtree, elmt, idx, out, called>>

\* the caller that passed a one-element list passes the same list to a second call
CallFindDescendantsAgain ==
    /\ pc = "done"
    /\ op.name = "find_descendants"
    /\ Len(op.args) = 1
    /\ Len(results) = 1
    /\ queue' = lists[xs]
    /\ desc' = xs
    /\ pc' = "descendants"
    /\ ret' = "top"
    /\ UNCHANGED <<store, op, branch, thisnode, lists, xs, results, ischildResult,
                   searchterm, withtree, elmt, idx, out, called>>

CallIsChild ==
    /\ pc = "idle"
    /\ TreeValid(store)
    /\ \E A \in 1..Len(store), C \in 1..Len(store) :
         /\ op' = [name |-> "ischild", args |-> <<A, C>>]
         /\ lists' = Append(lists, <<A>>)
         /\ xs' = Len(lists) + 1
         /\ queue' = <<A>>
         /\ desc' = Len(lists) + 1
    /\ pc' = "descendants"
    /\ ret' = "ischild"
    /\ UNCHANGED <<store, branch, thisnode, results, ischildResult,
                   searchterm, withtree, elmt, idx, out, called>>

\* variant: the children are collected but never queued, so only the direct
\* children of the given nodes are returned
DescendantsLoop_ChildrenOnly ==
    /\ pc = "descendants"
    /\ IF Len(queue) > 0
       THEN LET children == find_children(<<Head(queue)>>) IN
            /\ thisnode' = Head(queue)
            /\ queue' = Tail(queue)
            /\ lists' = [lists EXCEPT ![desc] = @ \o children]
            /\ UNCHANGED <<pc, results, ischildResult>>
       ELSE /\ pc' = "done"
            /\ IF ret = "ischild"
               THEN /\ ischildResult' = <<op.args[2] \in Range(lists[desc])>>
                    /\ UNCHANGED results
               ELSE /\ results' = Append(results, [ref |-> desc, value |-> lists[desc]])
                    /\ UNCHANGED ischildResult
            /\ UNCHANGED <<lists, queue, thisnode>>
    /\ UNCHANGED <<store, op, ret, branch, xs, desc,
                   searchterm, withtree, elmt, idx, out, called>>

\* one turn of the while loop, or the return when the queue is empty
DescendantsLoop ==
    /\ pc = "descendants"
    /\ IF Len(queue) > 0
       THEN LET children == find_children(<<Head(queue)>>) IN
            /\ thisnode' = Head(queue)
            /\ IF children = <<>>
               THEN /\ queue' = Tail(queue)
                    /\ UNCHANGED lists
               ELSE /\ lists' = [lists EXCEPT ![desc] = @ \o children]
                    /\ queue' = Tail(queue) \o children
            /\ UNCHANGED <<pc, results, ischildResult>>
       ELSE /\ pc' = "done"
            /\ IF ret = "ischild"
               THEN /\ ischildResult' = <<op.args[2] \in Range(lists[desc])>>
                    /\ UNCHANGED results
               ELSE /\ results' = Append(results, [ref |-> desc, value |-> lists[desc]])
                    /\ UNCHANGED ischildResult
            /\ UNCHANGED <<lists, queue, thisnode>>
    /\ UNCHANGED <<store, op, ret, branch, xs, desc,
                   searchterm, withtree, elmt, idx, out, called>>

\* the caller of ischild then asks for the ancestors of the same element
CallFindAllParentsAfterIsChild ==
    /\ pc = "done"
    /\ op.name = "ischild"
    /\ branch = <<>>
    /\ branch' = <<op.args[2]>>
    /\ thisnode' = op.args[2]
    /\ pc' = "allparents"
    /\ ret' = "top"
    /\ UNCHANGED <<store, op, lists, xs, queue, desc, results, ischildResult,
                   searchterm, withtree, elmt, idx, out, called>>

----------------------------------------------------------------------------
(* search *)

ALMOND == <<"A","L","M","O","N","D">>

ALMOND_SWEET == <<"A","L","M","O","N","D",","," ","S","W","E","E","T">>

JAVA_ALMOND == <<"J","A","V","A","-","A","L","M","O","N","D">>

TROPICAL_ALMOND == <<"T","R","O","P","I","C","A","L"," ","A","L","M","O","N","D">>

TermNames == {ALMOND, ALMOND_SWEET, JAVA_ALMOND, TROPICAL_ALMOND}

\* the documents searched: the root and a chain of named records below it
NamedStore(n, g) ==
    [i \in 1..n |->
        [ftc  |-> Code(i),
         name |-> IF i = 1 THEN RootName ELSE g[i],
         bt   |-> IF i = 1 THEN None ELSE Code(i - 1)]]

NamedStores == {NamedStore(MaxRecords, g) : g \in [2..MaxRecords -> TermNames]}

NameTerms ==
    {<<>>, <<" ">>, <<" ", " ">>, ALMOND, <<"a","l","m","o","n","d">>, <<"A","l","m","o","n","d">>, <<"A","L","M","N","D">>, <<" ">> \o ALMOND,
     ALMOND_SWEET, JAVA_ALMOND, <<"j","a","v","a","-","a","l","m","o","n","d">>, <<"S","W","E","E","T">>, <<"-">>, RootName}

CodeBodies ==
    {Code(2), Code(MaxRecords), Code(MaxRecords + 1), <<"b","0","0","0","2">>,
     <<"B","0","0","2">>}

CodeTerms ==
    {pre \o body \o suf : pre \in {<<>>, <<" ">>}, body \in CodeBodies,
                          suf \in {<<>>, <<" ">>, <<"7">>, <<"X">>}}

SearchTerms == NameTerms \cup CodeTerms

\* lines 206-220: classify, look up, print what was not found
CallSearch ==
    /\ pc = "idle"
    /\ \E t \in SearchTerms, wt \in BOOLEAN :
         /\ op' = [name |-> "search", args |-> <<t, wt>>]
         /\ searchterm' = t
         /\ withtree' = wt
         /\ IF codes_match(t)
            THEN /\ elmt' = find_byftc(t)
                 /\ called' = <<"find_byftc">>
                 /\ IF find_byftc(t) = <<>>
                    THEN /\ out' = <<msg_cant_find(t)>>
                         /\ pc' = "done"
                    ELSE /\ out' = <<>>
                         /\ pc' = "render"
            ELSE IF find_byname(t) # <<>>
            THEN /\ elmt' = find_byname(t)
                 /\ called' = <<"find_byname">>
                 /\ out' = <<>>
                 /\ pc' = "render"
            ELSE /\ elmt' = contains_name(t)
                 /\ called' = <<"find_byname", "contains_name">>
                 /\ IF contains_name(t) = <<>>
                    THEN /\ out' = <<msg_no_exact(t), msg_nothing_containing(t)>>
                         /\ pc' = "done"
                    ELSE /\ out' = <<msg_no_exact(t)>>
                         /\ pc' = "render"
    /\ idx' = 1
    /\ UNCHANGED <<store, ret, branch, thisnode, lists, xs, queue, desc,
                   results, ischildResult>>

\* lines 222-231: one turn of "for e in elmt", or the return after the last
SearchLoop ==
    /\ pc = "render"
    /\ IF idx > Len(elmt)
       THEN /\ pc' = "done"
            /\ UNCHANGED <<branch, thisnode, ret, out, idx>>
       ELSE IF withtree
       THEN /\ branch' = <<elmt[idx]>>
            /\ thisnode' = elmt[idx]
            /\ ret' = "search"
            /\ pc' = "allparents"
            /\ UNCHANGED <<out, idx>>
       ELSE /\ out' = out \o <<get_ftc(elmt[idx]) \o Spaces(8) \o get_name(elmt[idx]),
                                Separator>>
            /\ idx' = idx + 1
            /\ UNCHANGED <<pc, branch, thisnode, ret>>
    /\ UNCHANGED <<store, op, lists, xs, queue, desc, results, ischildResult,
                   searchterm, withtree, elmt, called>>

----------------------------------------------------------------------------

InitLocals ==
    /\ op = NoOp
    /\ pc = "idle"
    /\ ret = "top"
    /\ branch = <<>>
    /\ thisnode = 0
    /\ lists = <<>>
    /\ xs = 0
    /\ queue = <<>>
    /\ desc = 0
    /\ results = <<>>
    /\ ischildResult = <<>>
    /\ searchterm = <<>>
    /\ withtree = TRUE
    /\ elmt = <<>>
    /\ idx = 0
    /\ out = <<>>
    /\ called = <<>>

Init ==
    /\ store \in StructStores
    /\ InitLocals

Next ==
    \/ CallFindAllParents
    \/ AllParentsLoop
    \/ CallFindDescendants
    \/ CallFindDescendantsAgain
    \/ CallIsChild
    \/ DescendantsLoop
    \/ CallFindAllParentsAfterIsChild

Spec == Init /\ [][Next]_vars

InitSearch ==
    /\ store \in NamedStores
    /\ InitLocals

NextSearch ==
    \/ CallSearch
    \/ SearchLoop
    \/ AllParentsLoop

SpecSearch == InitSearch /\ [][NextSearch]_vars

----------------------------------------------------------------------------
(* Properties of the tree operations *)

Chain4 == StructStore(4, [i \in 2..4 |-> i - 1])

\* i's parent chain, stated on the data: the records met going up from i
RECURSIVE UpDist(_, _, _, _)
UpDist(s, c, a, fuel) ==
    IF c = a THEN 0
    ELSE IF fuel = 0 \/ s[c].bt = None \/ Holders(s, s[c].bt) = {} THEN 99
    ELSE LET d == UpDist(s, ParentIdx(s, c), a, fuel - 1)
         IN IF d = 99 THEN 99 ELSE d + 1

IsAncestorOrSelf(s, a, c) == UpDist(s, c, a, Len(s)) # 99

\* following parent codes from i never meets the root nor a missing code
RECURSIVE CycleFrom(_, _, _)
CycleFrom(s, i, fuel) ==
    /\ s[i].name # RootName
    /\ s[i].bt # None
    /\ Holders(s, s[i].bt) # {}
    /\ fuel = 0 \/ CycleFrom(s, ParentIdx(s, i), fuel - 1)

\* C1: on a document that satisfies the tree invariant, find_allparents(R)
\* never raises, never holds more elements than the document has records (so
\* the loop, which adds one element per turn, ends), starts with R, each
\* element after the first is the parent of the one before it, and on return
\* the last element is the root record, so that the reversed list is the
\* root-to-node path.
C1_AncestorChain ==
    (op.name = "find_allparents" /\ TreeValid(store)) =>
        /\ pc \in {"allparents", "done"}
        /\ Len(branch) <= Len(store)
        /\ branch[1] = op.args[1]
        /\ \A i \in 1..(Len(branch) - 1) :
              /\ store[branch[i]].name # RootName
              /\ store[branch[i + 1]].ftc = store[branch[i]].bt
        /\ pc = "done" =>
              /\ store[branch[Len(branch)]].name = RootName
              /\ Reverse(branch)[1] = 1
              /\ Reverse(branch)[Len(branch)] = op.args[1]

C1_Witness ==
    /\ store = Chain4
    /\ op = [name |-> "find_allparents", args |-> <<4>>]
    /\ pc = "done"
    /\ Reverse(branch) = <<1, 2, 3, 4>>

\* the records of the document whose BT is the code of record i, in source order
KidsOf(i) == InSourceOrder({c \in 1..Len(store) : store[c].bt = store[i].ftc})

RECURSIVE Levels(_, _)
Levels(frontier, fuel) ==
    IF frontier = <<>> \/ fuel = 0 THEN <<>>
    ELSE frontier \o Levels(Flatten([k \in 1..Len(frontier) |-> KidsOf(frontier[k])]), fuel - 1)

DistFrom(S, r) ==
    LET ds == {UpDist(store, r, S[k], Len(store)) : k \in 1..Len(S)}
    IN IF ds = {} THEN 99 ELSE CHOOSE d \in ds : \A x \in ds : d <= x

FirstPos(seq, r) == CHOOSE p \in 1..Len(seq) : seq[p] = r /\ \A q \in 1..(p - 1) : seq[q] # r

\* C2: on a document that satisfies the tree invariant, find_descendants(S)
\* returns S followed, level by level, by the children of the level before
\* (each level being the children of the previous level's elements, in that
\* order and in source order among siblings); it holds exactly the records
\* of S and those below them, and a record nearer to S first occurs before a
\* record farther from it.
C2_BreadthFirstClosure ==
    (op.name = "find_descendants" /\ Len(results) >= 1) =>
        LET S == op.args
            r == results[1].value
        IN /\ SubSeq(r, 1, Len(S)) = S
           /\ r = Levels(S, Len(store) + 1)
           /\ Range(r) = {c \in 1..Len(store) : DistFrom(S, c) # 99}
           /\ \A a, b \in Range(r) :
                 DistFrom(S, a) < DistFrom(S, b) => FirstPos(r, a) < FirstPos(r, b)

C2_Witness ==
    /\ store = Chain4
    /\ op = [name |-> "find_descendants", args |-> <<2>>]
    /\ Len(results) >= 1
    /\ results[1].value = <<2, 3, 4>>

\* C3: on a document that satisfies the tree invariant, ischild([A], [C])
\* returns True exactly when A is an element of find_allparents(C); it is
\* True when C = A and False when A is neither C nor above C.
C3_IsChildIffAncestor ==
    (op.name = "ischild" /\ pc = "done" /\ branch # <<>>) =>
        LET A == op.args[1]
            C == op.args[2]
        IN /\ ischildResult[1] <=> (A \in Range(branch))
           /\ A = C => ischildResult[1]
           /\ ~IsAncestorOrSelf(store, A, C) => ~ischildResult[1]

C3_Witness ==
    /\ store = Chain4
    /\ op = [name |-> "ischild", args |-> <<2, 4>>]
    /\ pc = "done"
    /\ branch = <<4, 3, 2, 1>>
    /\ ischildResult = <<TRUE>>

\* C4: two successive calls of find_descendants on the same list return the
\* same sequence, and what the first call returned is unchanged by the
\* second call.
C4_Idempotent ==
    (op.name = "find_descendants" /\ Len(results) = 2) =>
        /\ results[2].value = results[1].value
        /\ lists[results[1].ref] = results[1].value

\* C7: when the parent codes followed from R form a cycle that never meets
\* the root, find_allparents(R) takes at most as many steps as the document
\* has records.
C7_CycleBounded ==
    (op.name = "find_allparents" /\ CycleFrom(store, op.args[1], Len(store))) =>
        Len(branch) - 1 <= Len(store)

----------------------------------------------------------------------------
(* Properties of search *)

StartsWith(line, prefix) ==
    Len(line) >= Len(prefix) /\ SubSeq(line, 1, Len(prefix)) = prefix

EndsWith(line, suffix) ==
    Len(line) >= Len(suffix)
      /\ SubSeq(line, Len(line) - Len(suffix) + 1, Len(line)) = suffix

CantFindText == <<"c","a","n","'","t"," ","f","i","n","d">>

NoExactText == <<"c","a","n","'","t"," ","f","i","n","d"," ","a","n"," ","e","x","a","c","t"," ","m","a","t","c","h"," ","f","o","r",":"," ">>

NothingContainingText == <<"c","a","n","'","t"," ","f","i","n","d"," ","a","n","y","t","h","i","n","g"," ","c","o","n","t","a","i","n","i","n","g",":"," ">>

IsMessage(line) == StartsWith(line, CantFindText)

Messages == SelectSeq(out, IsMessage)

\* what was printed right before each separator: the line of a rendered record
RenderedLines ==
    LET seps == InSourceOrder({p \in 1..Len(out) : out[p] = Separator})
    IN [k \in 1..Len(seps) |-> IF seps[k] = 1 THEN <<>> ELSE out[seps[k] - 1]]

Renders(recs) ==
    /\ Len(RenderedLines) = Len(recs)
    /\ \A k \in 1..Len(recs) :
          EndsWith(RenderedLines[k],
                   store[recs[k]].ftc \o Spaces(8) \o store[recs[k]].name)

ExactMatches ==
    InSourceOrder({e \in 1..Len(store) : Upper(store[e].name) = Upper(searchterm)})

ContainsMatches ==
    InSourceOrder({e \in 1..Len(store) : Contains(Upper(searchterm), Upper(store[e].name))})

NameQuery == op.name = "search" /\ called[1] = "find_byname"

CodeQuery == op.name = "search" /\ called[1] = "find_byftc"

RECURSIVE Trim(_)
Trim(t) ==
    IF t = <<>> THEN t
    ELSE IF Head(t) = " " THEN Trim(Tail(t))
    ELSE IF t[Len(t)] = " " THEN Trim(SubSeq(t, 1, Len(t) - 1))
    ELSE t

\* one uppercase letter, exactly four digits, then the end or a non-word character
CodeShaped(t) ==
    /\ Len(t) >= 5
    /\ t[1] \in UpperSet
    /\ {t[2], t[3], t[4], t[5]} \subseteq DigitSet
    /\ Len(t) > 5 => t[6] \notin WordSet

SpaceB0002 == <<" ","B","0","0","0","2">>

\* C5: a name query for which some record's name equals the input, letter
\* case aside, resolves to all the records with that name, in source order,
\* renders each of them, and prints no "can't find" message.
C5_ExactMatchPrecedence ==
    (NameQuery /\ ExactMatches # <<>>) =>
        /\ elmt = ExactMatches
        /\ Messages = <<>>
        /\ pc # "error"
        /\ pc = "done" => Renders(ExactMatches)

C5_Witness ==
    /\ store = NamedStore(4, <<RootName, ALMOND, ALMOND_SWEET, ALMOND>>)
    /\ searchterm = <<"a","l","m","o","n","d">>
    /\ pc = "done"
    /\ elmt = <<2, 4>>
    /\ Len(RenderedLines) = 2

\* C6: for an empty or all-whitespace input, search resolves and renders no
\* record, prints a not-found message and raises nothing.
C6_BlankInputFindsNothing ==
    (op.name = "search" /\ Trim(searchterm) = <<>>) =>
        /\ elmt = <<>>
        /\ RenderedLines = <<>>
        /\ Messages # <<>>
        /\ pc # "error"

\* C8 as claimed: search takes the by-code path exactly when the trimmed
\* input is code-shaped, and " B0002" resolves to the record with code B0002.
C8_TrimmedClassification ==
    op.name = "search" =>
        /\ CodeQuery <=> CodeShaped(Trim(searchterm))
        /\ CodeQuery \/ NameQuery
        /\ searchterm = SpaceB0002 => elmt = <<2>>

\* C8 as amended: search takes the by-code path, and calls no name lookup,
\* exactly when the input as given (untrimmed) is code-shaped; every other
\* input, one with leading whitespace included, takes the name path and never
\* calls the by-code lookup; a code query resolves to the records whose code
\* is the whole input in upper case.
C8_RawClassification ==
    op.name = "search" =>
        /\ CodeQuery <=> CodeShaped(searchterm)
        /\ CodeQuery => /\ called = <<"find_byftc">>
                        /\ elmt = InSourceOrder({e \in 1..Len(store) : store[e].ftc = Upper(searchterm)})
        /\ ~CodeQuery => /\ NameQuery
                         /\ \A k \in 1..Len(called) : called[k] # "find_byftc"
        /\ (searchterm # <<>> /\ searchterm[1] = " ") => NameQuery

C8_Witness ==
    /\ op.name = "search"
    /\ searchterm = SpaceB0002
    /\ called = <<"find_byname", "contains_name">>
    /\ elmt = <<>>
    /\ pc = "done"

\* C9: a name query with no exact match and at least one record whose name
\* contains the input, letter case aside, prints the warning "can't find an
\* exact match for: <input>" first and nothing else of the kind, resolves to
\* every record whose name contains the input, in source order, and renders
\* each of them.
C9_SubstringFallback ==
    (NameQuery /\ ExactMatches = <<>> /\ ContainsMatches # <<>>) =>
        /\ out # <<>> /\ StartsWith(out[1], NoExactText \o searchterm)
        /\ Len(Messages) = 1
        /\ elmt = ContainsMatches
        /\ pc # "error"
        /\ pc = "done" => Renders(ContainsMatches)

C9_Witness ==
    /\ store = NamedStore(4, <<RootName, JAVA_ALMOND, TROPICAL_ALMOND, JAVA_ALMOND>>)
    /\ searchterm = ALMOND
    /\ pc = "done"
    /\ elmt = <<2, 3, 4>>
    /\ Len(out) > 3

\* C10 as claimed: a name query with no exact and no substring match prints
\* the single message "can't find anything containing: <input>", without the
\* "can't find an exact match for" warning.
C10_SingleMessage ==
    (NameQuery /\ ExactMatches = <<>> /\ ContainsMatches = <<>>) =>
        /\ Len(out) = 1
        /\ StartsWith(out[1], NothingContainingText \o searchterm)
        /\ \A k \in 1..Len(out) : ~StartsWith(out[k], NoExactText)

\* C10 as amended: a name query with no exact and no substring match prints
\* "can't find an exact match for: <input>" and then "can't find anything
\* containing: <input>", renders no record and raises nothing.
C10_BothMessages ==
    (NameQuery /\ ExactMatches = <<>> /\ ContainsMatches = <<>>) =>
        /\ out = <<NoExactText \o searchterm \o <<"\n">>,
                   NothingContainingText \o searchterm \o <<"\n">> >>
        /\ elmt = <<>>
        /\ RenderedLines = <<>>
        /\ pc = "done"

C10_Witness ==
    /\ op.name = "search"
    /\ searchterm = <<"A","L","M","N","D">>
    /\ called = <<"find_byname", "contains_name">>
    /\ Len(out) = 2
    /\ pc = "done"

====
